---- MODULE Spec2Model ----
(***************************************************************************)
(* The messaging functions of app.py over the three SQLite tables          *)
(* (users, message_requests, messages).  Every function opens its own      *)
(* connection, and every SQL statement is one atomic step on the shared    *)
(* database.  A function that issues one writing statement is one action.  *)
(* send_request issues a SELECT and, later, an INSERT: it is two actions,  *)
(* and other sessions may run in between.  What a function returns is an   *)
(* operator over its arguments and the database it reads.                  *)
(***************************************************************************)
EXTENDS Integers, Sequences, FiniteSets, TLC

\* ---------------------------------------------------------------- bounds
MaxRows == 3    \* rows that message_requests and messages may hold together

\* ---------------------------------------------------------- input domains
Usernames == <<"alice", "bob", "carol">>  \* usernames, in the order they get taken
Sessions  == {"s1", "s2"}                 \* sessions that may be inside send_request
Texts     == {<<"h", "i">>, <<" ">>}      \* message texts, as sequences of characters
Times     == {0, 1}                       \* values datetime.now() may yield

\* ----------------------------------------------------------------- state
VARIABLES
    users,              \* table users: row id -> username
    message_requests,   \* table message_requests: row id -> [sender_id, receiver_id, status]
    messages,           \* table messages: row id -> [sender_id, receiver_id, message_text, timestamp]
    pc                  \* per session: where it stands inside send_request

vars == <<users, message_requests, messages, pc>>

Idle == [at |-> "idle", sender_id |-> 0, receiver_id |-> 0]
None == "None"          \* what a Python function without a return value gives

\* init_db creates the three tables empty; AUTOINCREMENT ids are the row positions.
Init ==
    /\ users = <<>>
    /\ message_requests = <<>>
    /\ messages = <<>>
    /\ pc = [s \in Sessions |-> Idle]

UserIds == 1 .. Len(users)
RequestIds == 1 .. Len(message_requests)
MessageIds == 1 .. Len(messages)

\* Sessions between the SELECT and the INSERT of send_request.
InFlight == {t \in Sessions : pc[t].at = "insert"}

\* The tables have room for one more row (the bound of the model, not of the code).
Room == Len(message_requests) + Len(messages) + Cardinality(InFlight) < MaxRows

\* ------------------------------------------------------------ users table
\* SELECT id FROM users WHERE username = ?; 0 stands for None.
get_user_id(username) ==
    IF \E i \in UserIds : users[i] = username
    THEN CHOOSE i \in UserIds : users[i] = username
    ELSE 0

\* Variant of register_user_returns for a users table without the UNIQUE
\* constraint (the check of C28).
register_user_returnsNoUnique(username) ==
    <<TRUE, "Registration successful! Please login.">>

\* What register_user returns: the UNIQUE constraint on username raises
\* IntegrityError for a name that is taken.
register_user_returns(username) ==
    IF \E i \in UserIds : users[i] = username
    THEN <<FALSE, "Username already exists.">>
    ELSE <<TRUE, "Registration successful! Please login.">>

\* INSERT INTO users (username, password_hash).  Usernames are only compared
\* for equality, so a new user takes the first unused name of Usernames; a
\* name that is taken may be tried again.
register_user(username) ==
    /\ \E k \in 1 .. Len(Usernames) : k <= Len(users) + 1 /\ Usernames[k] = username
    /\ users' = IF register_user_returns(username)[1]
                THEN Append(users, username)
                ELSE users
    /\ UNCHANGED <<message_requests, messages, pc>>

\* ------------------------------------------------- message_requests table
\* Variant of Between that matches one direction only (the check of C8).
BetweenOneWay(row, a, b) == row.sender_id = a /\ row.receiver_id = b

\* WHERE (sender_id=a AND receiver_id=b) OR (sender_id=b AND receiver_id=a)
Between(row, a, b) ==
    \/ (row.sender_id = a /\ row.receiver_id = b)
    \/ (row.sender_id = b /\ row.receiver_id = a)

\* Variant of ExistingRequests that looks for the proposer's own direction only
\* (the check of C6).
ExistingRequestsSameWay(sender_id, receiver_id) ==
    {i \in RequestIds : /\ message_requests[i].sender_id = sender_id
                        /\ message_requests[i].receiver_id = receiver_id}

\* The rows the SELECT of send_request matches.
ExistingRequests(sender_id, receiver_id) ==
    {i \in RequestIds : Between(message_requests[i], sender_id, receiver_id)}

\* The two failures of send_request for a pair that has a request: what the
\* specification calls AlreadyConnected and RequestExists.
AlreadyConnected == <<FALSE, "You are already connected with this user.">>
RequestExists == <<FALSE, "A pending request already exists or was declined.">>

\* What send_request returns for the status that fetchone() gave it.
ExistingOutcome(status) ==
    IF status = "accepted" THEN AlreadyConnected ELSE RequestExists

\* The two failures of send_request before it reads message_requests: what
\* the specification calls UserNotFound and SelfTarget.
UserNotFound == <<FALSE, "User not found.">>
SelfTarget == <<FALSE, "You cannot send a request to yourself.">>

\* Variant of send_request_early without the sender_id == receiver_id test
\* (the check of C12).
send_request_earlyNoSelfTest(sender_id, receiver_username) ==
    LET receiver_id == get_user_id(receiver_username)
    IN  IF receiver_id = 0
        THEN {UserNotFound}
        ELSE {ExistingOutcome(message_requests[i].status) :
                 i \in ExistingRequests(sender_id, receiver_id)}

\* The values send_request may return before its INSERT; none when it goes on
\* to the INSERT.  fetchone() gives one of the matching rows.
send_request_early(sender_id, receiver_username) ==
    LET receiver_id == get_user_id(receiver_username)
    IN  IF receiver_id = 0
        THEN {UserNotFound}
        ELSE IF sender_id = receiver_id
        THEN {SelfTarget}
        ELSE {ExistingOutcome(message_requests[i].status) :
                 i \in ExistingRequests(sender_id, receiver_id)}

\* send_request up to and including its SELECT: it returns early, or goes on
\* to the INSERT.
send_request_check(s, sender_id, receiver_username) ==
    /\ pc[s].at = "idle"
    /\ IF send_request_early(sender_id, receiver_username) # {}
       THEN UNCHANGED pc
       ELSE /\ Room
            /\ pc' = [pc EXCEPT ![s] = [at |-> "insert", sender_id |-> sender_id,
                                        receiver_id |-> get_user_id(receiver_username)]]
    /\ UNCHANGED <<users, message_requests, messages>>

\* What send_request returns after its INSERT.
send_request_returns == <<TRUE, "Request sent!">>

\* Variant of send_request_insert that stores the two ids the other way round
\* (the check of C13).
send_request_insertReversed(s) ==
    /\ pc[s].at = "insert"
    /\ message_requests' = Append(message_requests,
            [sender_id |-> pc[s].receiver_id, receiver_id |-> pc[s].sender_id,
             status |-> "pending"])
    /\ pc' = [pc EXCEPT ![s] = Idle]
    /\ UNCHANGED <<users, messages>>

\* send_request from its INSERT to its return.
send_request_insert(s) ==
    /\ pc[s].at = "insert"
    /\ message_requests' = Append(message_requests,
            [sender_id |-> pc[s].sender_id, receiver_id |-> pc[s].receiver_id,
             status |-> "pending"])
    /\ pc' = [pc EXCEPT ![s] = Idle]
    /\ UNCHANGED <<users, messages>>

\* Variant of UpdateStatus without the receiver_id condition (the check of C4).
UpdateStatusAnyUser(request_id, user_id, new) ==
    [i \in RequestIds |->
        IF i = request_id
        THEN [message_requests[i] EXCEPT !.status = new]
        ELSE message_requests[i]]

\* UPDATE message_requests SET status=new WHERE id=? AND receiver_id=?
UpdateStatus(request_id, user_id, new) ==
    [i \in RequestIds |->
        IF i = request_id /\ message_requests[i].receiver_id = user_id
        THEN [message_requests[i] EXCEPT !.status = new]
        ELSE message_requests[i]]

\* Variant of accept_request whose UPDATE has no id condition (the check of
\* C26).
accept_requestEveryRequest(request_id, user_id) ==
    /\ message_requests' =
          [i \in RequestIds |->
              IF message_requests[i].receiver_id = user_id
              THEN [message_requests[i] EXCEPT !.status = "accepted"]
              ELSE message_requests[i]]
    /\ UNCHANGED <<users, messages, pc>>

accept_request(request_id, user_id) ==
    /\ message_requests' = UpdateStatus(request_id, user_id, "accepted")
    /\ UNCHANGED <<users, messages, pc>>

\* Variant of decline_request that deletes the row instead of updating it
\* (the check of C19).
decline_requestDeleting(request_id, user_id) ==
    /\ message_requests' =
          IF request_id \in RequestIds /\ message_requests[request_id].receiver_id = user_id
          THEN [k \in 1 .. Len(message_requests) - 1 |->
                   IF k < request_id THEN message_requests[k] ELSE message_requests[k + 1]]
          ELSE message_requests
    /\ UNCHANGED <<users, messages, pc>>

decline_request(request_id, user_id) ==
    /\ message_requests' = UpdateStatus(request_id, user_id, "declined")
    /\ UNCHANGED <<users, messages, pc>>

\* accept_request and decline_request have no return statement.
accept_request_returns(request_id, user_id) == None

decline_request_returns(request_id, user_id) == None

\* --------------------------------------------------------- messages table
\* str.strip(): the text without its leading and trailing blanks.
IsSpace(c) == c \in {" ", "\t", "\n"}

RECURSIVE lstrip(_)
lstrip(text) ==
    IF text # <<>> /\ IsSpace(Head(text)) THEN lstrip(Tail(text)) ELSE text

RECURSIVE rstrip(_)
rstrip(text) ==
    IF text # <<>> /\ IsSpace(text[Len(text)])
    THEN rstrip(SubSeq(text, 1, Len(text) - 1))
    ELSE text

strip(text) == rstrip(lstrip(text))

\* The row send_message inserts.
NewMessage(sender_id, receiver_id, text, now) ==
    [sender_id |-> sender_id, receiver_id |-> receiver_id,
     message_text |-> text, timestamp |-> now]

\* Variant of Stores that tests the text without stripping it (the check of
\* C18).
StoresUnstripped(sender_id, receiver_id, text) == text # <<>>

\* send_message stores the row unless the text is blank.
Stores(sender_id, receiver_id, text) == strip(text) # <<>>

\* datetime.now() is the local wall clock, read before the INSERT runs: it is
\* not tied to the order in which the rows are stored.
send_message(sender_id, receiver_id, text) ==
    /\ IF Stores(sender_id, receiver_id, text)
       THEN /\ Room
            /\ \E now \in Times :
                  messages' = Append(messages, NewMessage(sender_id, receiver_id, text, now))
       ELSE UNCHANGED messages
    /\ UNCHANGED <<users, message_requests, pc>>

\* ------------------------------------------------------------------ reads
\* The row ids of a set in row order (the order of a table scan).
RECURSIVE RowOrder(_)
RowOrder(ids) ==
    IF ids = {} THEN <<>>
    ELSE LET first == CHOOSE i \in ids : \A j \in ids : i <= j
         IN  <<first>> \o RowOrder(ids \ {first})

\* Variant of get_pending_requests without the status condition (the check of
\* C20).
get_pending_requestsAnyStatus(user_id) ==
    LET order == RowOrder({i \in RequestIds :
                              /\ message_requests[i].sender_id \in UserIds
                              /\ message_requests[i].receiver_id = user_id})
    IN  [k \in 1 .. Len(order) |->
            <<users[message_requests[order[k]].sender_id], order[k]>>]

\* SELECT u.username, mr.id FROM message_requests mr
\*   JOIN users u ON mr.sender_id = u.id
\* WHERE mr.receiver_id = ? AND mr.status = 'pending'
get_pending_requests(user_id) ==
    LET order == RowOrder({i \in RequestIds :
                              /\ message_requests[i].sender_id \in UserIds
                              /\ message_requests[i].receiver_id = user_id
                              /\ message_requests[i].status = "pending"})
    IN  [k \in 1 .. Len(order) |->
            <<users[message_requests[order[k]].sender_id], order[k]>>]

\* Variant of get_sent_requests that keeps the pending requests only (the
\* check of C21).
get_sent_requestsPendingOnly(user_id) ==
    LET order == RowOrder({i \in RequestIds :
                              /\ message_requests[i].receiver_id \in UserIds
                              /\ message_requests[i].sender_id = user_id
                              /\ message_requests[i].status = "pending"})
    IN  [k \in 1 .. Len(order) |->
            <<users[message_requests[order[k]].receiver_id], message_requests[order[k]].status>>]

\* SELECT u.username, mr.status FROM message_requests mr
\*   JOIN users u ON mr.receiver_id = u.id
\* WHERE mr.sender_id = ?
get_sent_requests(user_id) ==
    LET order == RowOrder({i \in RequestIds :
                              /\ message_requests[i].receiver_id \in UserIds
                              /\ message_requests[i].sender_id = user_id})
    IN  [k \in 1 .. Len(order) |->
            <<users[message_requests[order[k]].receiver_id], message_requests[order[k]].status>>]

\* SELECT u.id, u.username FROM message_requests mr JOIN users u
\*   ON (u.id = mr.sender_id OR u.id = mr.receiver_id)
\* WHERE (mr.sender_id = ? OR mr.receiver_id = ?) AND mr.status = 'accepted' AND u.id != ?
\* One row per accepted request of user_id and user at its other end.
get_accepted_chats(user_id) ==
    LET Other(i) == IF message_requests[i].sender_id = user_id
                    THEN message_requests[i].receiver_id
                    ELSE message_requests[i].sender_id
        Keep(i) == /\ (message_requests[i].sender_id = user_id
                         \/ message_requests[i].receiver_id = user_id)
                   /\ message_requests[i].status = "accepted"
                   /\ Other(i) # user_id
                   /\ Other(i) \in UserIds
        order == RowOrder({i \in RequestIds : Keep(i)})
    IN  [k \in 1 .. Len(order) |-> <<Other(order[k]), users[Other(order[k])]>>]

\* Variant of Permitted without the status condition (the check of C7).
PermittedAnyStatus(user_id, partner_id) ==
    \E i \in RequestIds : Between(message_requests[i], user_id, partner_id)

\* The security check of get_messages: SELECT id FROM message_requests
\* WHERE ((sender_id=? AND receiver_id=?) OR (sender_id=? AND receiver_id=?))
\* AND status='accepted'
Permitted(user_id, partner_id) ==
    \E i \in RequestIds :
        /\ Between(message_requests[i], user_id, partner_id)
        /\ message_requests[i].status = "accepted"

\* ORDER BY timestamp ASC over the message rows ids; rows of one timestamp
\* come in row order.
RECURSIVE OrderByTimestamp(_)
OrderByTimestamp(ids) ==
    IF ids = {} THEN <<>>
    ELSE LET first == CHOOSE i \in ids : \A j \in ids :
                          \/ messages[i].timestamp < messages[j].timestamp
                          \/ (messages[i].timestamp = messages[j].timestamp /\ i <= j)
         IN  <<first>> \o OrderByTimestamp(ids \ {first})

\* Variant of MessagesBetween that matches the rows user_id sent only (the
\* check of C14).
MessagesSentBy(user_id, partner_id) ==
    {i \in MessageIds : /\ messages[i].sender_id = user_id
                        /\ messages[i].receiver_id = partner_id}

\* The message rows the second SELECT of get_messages matches.
MessagesBetween(user_id, partner_id) ==
    {i \in MessageIds : Between(messages[i], user_id, partner_id)}

\* get_messages: [] without permission, else
\* SELECT sender_id, message_text, timestamp FROM messages WHERE ... ORDER BY timestamp ASC
get_messages(user_id, partner_id) ==
    IF ~Permitted(user_id, partner_id)
    THEN <<>>
    ELSE LET order == OrderByTimestamp(MessagesBetween(user_id, partner_id))
         IN  [k \in 1 .. Len(order) |->
                 <<messages[order[k]].sender_id, messages[order[k]].message_text,
                   messages[order[k]].timestamp>>]

\* What fetchone() gives for a query without rows (None), as a value that
\* compares with a row.
NoRow == <<>>

\* Variant of get_last_message behind the security check of get_messages (the
\* check of C22).
get_last_messageGated(user_id, partner_id) ==
    IF ~Permitted(user_id, partner_id) \/ MessagesBetween(user_id, partner_id) = {}
    THEN NoRow
    ELSE LET ids == MessagesBetween(user_id, partner_id)
             first == CHOOSE i \in ids : \A j \in ids :
                          \/ messages[i].timestamp > messages[j].timestamp
                          \/ (messages[i].timestamp = messages[j].timestamp /\ i <= j)
         IN  <<messages[first].sender_id, messages[first].message_text,
               messages[first].timestamp>>

\* get_last_message: SELECT sender_id, message_text, timestamp FROM messages
\* WHERE ... ORDER BY timestamp DESC LIMIT 1, and fetchone(): NoRow without a
\* matching row, else the row of the greatest timestamp; among rows of that
\* timestamp SQLite yields the first in row order.
get_last_message(user_id, partner_id) ==
    IF MessagesBetween(user_id, partner_id) = {}
    THEN NoRow
    ELSE LET ids == MessagesBetween(user_id, partner_id)
             first == CHOOSE i \in ids : \A j \in ids :
                          \/ messages[i].timestamp > messages[j].timestamp
                          \/ (messages[i].timestamp = messages[j].timestamp /\ i <= j)
         IN  <<messages[first].sender_id, messages[first].message_text,
               messages[first].timestamp>>

\* Variant of get_unread_count that counts the messages of the other
\* direction (the check of C23).
get_unread_countSent(user_id, partner_id) ==
    Cardinality({i \in MessageIds : /\ messages[i].sender_id = user_id
                                    /\ messages[i].receiver_id = partner_id})

\* get_unread_count: SELECT COUNT(*) FROM messages
\* WHERE sender_id = partner_id AND receiver_id = user_id
get_unread_count(user_id, partner_id) ==
    Cardinality({i \in MessageIds : /\ messages[i].sender_id = partner_id
                                    /\ messages[i].receiver_id = user_id})

\* A read runs its SELECTs and closes the connection: the tables stay as they are.
read_accepted_chats(user_id) ==
    /\ get_accepted_chats(user_id) \in Seq(UserIds \X {users[i] : i \in UserIds})
    /\ UNCHANGED vars

read_messages(user_id, partner_id) ==
    /\ get_messages(user_id, partner_id) \in Seq(UserIds \X Texts \X Times)
    /\ UNCHANGED vars

read_pending_requests(user_id) ==
    /\ get_pending_requests(user_id) \in Seq({users[i] : i \in UserIds} \X RequestIds)
    /\ UNCHANGED vars

read_last_message(user_id, partner_id) ==
    /\ get_last_message(user_id, partner_id) \in {NoRow} \cup (UserIds \X Texts \X Times)
    /\ UNCHANGED vars

read_unread_count(user_id, partner_id) ==
    /\ get_unread_count(user_id, partner_id) \in 0 .. Len(messages)
    /\ UNCHANGED vars

read_sent_requests(user_id) ==
    /\ get_sent_requests(user_id) \in
           Seq({users[i] : i \in UserIds} \X {"pending", "accepted", "declined"})
    /\ UNCHANGED vars

\* ------------------------------------------------------------------ next
\* The users that a request row, a message row or an INSERT under way names.
Used ==
    {message_requests[i].sender_id : i \in RequestIds}
        \cup {message_requests[i].receiver_id : i \in RequestIds}
        \cup {messages[i].sender_id : i \in MessageIds}
        \cup {messages[i].receiver_id : i \in MessageIds}
        \cup {pc[s].sender_id : s \in InFlight}
        \cup {pc[s].receiver_id : s \in InFlight}

\* The code tells users apart by id only, and users that no row names yet are
\* interchangeable: a call that names such users names the lowest such ids,
\* the lower one as its caller.  Every other state is one of these with the
\* users renumbered.
InOrderOfFirstUse(a, b) ==
    \/ a = b
    \/ b \notin UserIds
    \/ /\ \A u \in {a, b} \ Used : \A v \in 1 .. (u - 1) : v \in Used \cup {a, b}
       /\ ({a, b} \cap Used = {}) => a < b

Next ==
    \/ \E k \in 1 .. Len(Usernames) : register_user(Usernames[k])
    \/ \E s \in Sessions, sender_id \in UserIds, k \in 1 .. Len(Usernames) :
          /\ InOrderOfFirstUse(sender_id, get_user_id(Usernames[k]))
          /\ send_request_check(s, sender_id, Usernames[k])
    \/ \E s \in Sessions : send_request_insert(s)
    \/ \E request_id \in 1 .. Len(message_requests) + 1, user_id \in UserIds :
          accept_request(request_id, user_id)
    \/ \E request_id \in 1 .. Len(message_requests) + 1, user_id \in UserIds :
          decline_request(request_id, user_id)
    \/ \E sender_id \in UserIds, receiver_id \in UserIds, text \in Texts :
          /\ sender_id # receiver_id
          /\ InOrderOfFirstUse(sender_id, receiver_id)
          /\ send_message(sender_id, receiver_id, text)
    \/ \E user_id \in UserIds : read_pending_requests(user_id)
    \/ \E user_id \in UserIds : read_sent_requests(user_id)
    \/ \E user_id \in UserIds, partner_id \in UserIds :
          user_id # partner_id /\ read_unread_count(user_id, partner_id)
    \/ \E user_id \in UserIds, partner_id \in UserIds :
          user_id # partner_id /\ read_last_message(user_id, partner_id)
    \/ \E user_id \in UserIds : read_accepted_chats(user_id)
    \/ \E user_id \in UserIds, partner_id \in UserIds :
          user_id # partner_id /\ read_messages(user_id, partner_id)

Spec == Init /\ [][Next]_vars

\* ================================================================ claims
\* Vocabulary of the claims, stated over the tables.

\* The unordered pair of users of a request or message row.
PairOf(row) == {row.sender_id, row.receiver_id}

\* The requests recorded for the unordered pair {a, b}.
RequestsOfPair(a, b) == {i \in RequestIds : PairOf(message_requests[i]) = {a, b}}

\* isConnected(a, b): an accepted request exists for the unordered pair.
isConnected(a, b) ==
    \E i \in RequestsOfPair(a, b) : message_requests[i].status = "accepted"

StatusOf(table, i) == table[i].status

\* C1: in every reachable state, whatever the interleaving of send_request
\* calls, each unordered pair of users has at most one request row.
C1_AtMostOneRequestPerPair ==
    \A i \in RequestIds, j \in RequestIds :
        i # j => PairOf(message_requests[i]) # PairOf(message_requests[j])

\* C2: send_message stores a row only if the pair of its sender and receiver
\* has an accepted request at the moment of the write.
C2_AppendOnlyWhenConnected ==
    [][Len(messages') > Len(messages) =>
          isConnected(messages'[Len(messages')].sender_id,
                      messages'[Len(messages')].receiver_id)]_vars

\* C3: a request changes status at most once: once it is accepted or declined
\* no step changes its status again.
C3_StatusChangesAtMostOnce ==
    [][\A i \in RequestIds :
          StatusOf(message_requests, i) # "pending" =>
              StatusOf(message_requests', i) = StatusOf(message_requests, i)]_vars

\* C4: accept_request and decline_request called by any user other than the
\* request's receiver (its proposer included) leave its status unchanged.
C4_OnlyTargetResolves ==
    \A r \in RequestIds, u \in UserIds :
        u # message_requests[r].receiver_id =>
            ~ENABLED (/\ accept_request(r, u) \/ decline_request(r, u)
                      /\ StatusOf(message_requests', r) # StatusOf(message_requests, r))

\* C4 witness: a pending request whose proposer and a third user both call
\* accept_request and decline_request on it, and it stays pending.
C4_NonTargetCalls ==
    \E r \in RequestIds, v \in UserIds :
        LET row == message_requests[r]
        IN  /\ row.status = "pending"
            /\ v \notin PairOf(row)
            /\ \A u \in {row.sender_id, v} :
                  /\ ENABLED (accept_request(r, u) /\ message_requests' = message_requests)
                  /\ ENABLED (decline_request(r, u) /\ message_requests' = message_requests)

\* C5: when the receiver's accept_request and decline_request (or two
\* accept_request calls) race on one pending request, the call that commits
\* second does not change the status the first one wrote.
C5_FirstCommitWins ==
    [][\A r \in RequestIds :
          (/\ StatusOf(message_requests, r) # "pending"
           /\ \/ accept_request(r, message_requests[r].receiver_id)
              \/ decline_request(r, message_requests[r].receiver_id))
          => StatusOf(message_requests', r) = StatusOf(message_requests, r)]_vars

\* send_request(a, name of b) returns early and never reaches its INSERT.
ProposeFails(a, b) ==
    /\ send_request_early(a, users[b]) # {}
    /\ send_request_early(a, users[b]) \subseteq {RequestExists, AlreadyConnected}
    /\ \A s \in Sessions :
          ~ENABLED (/\ send_request_check(s, a, users[b])
                    /\ (pc' # pc \/ message_requests' # message_requests))

\* C6: once a request from a to b is stored, every send_request called from
\* then on for the pair, in either direction, fails with RequestExists or
\* AlreadyConnected and inserts no row, whatever the status of the request.
C6_LaterProposeFails ==
    \A a \in UserIds, b \in UserIds :
        (/\ a # b
         /\ \E i \in RequestIds : /\ message_requests[i].sender_id = a
                                  /\ message_requests[i].receiver_id = b)
        => ProposeFails(a, b) /\ ProposeFails(b, a)

\* C6 witness: a stored request from a to b, since accepted, with send_request
\* called by b for a (and by a for b) returning AlreadyConnected.
C6_ReverseProposeRefused ==
    \E a \in UserIds, b \in UserIds, s \in Sessions :
        /\ a # b
        /\ \E i \in RequestIds : message_requests[i] =
               [sender_id |-> a, receiver_id |-> b, status |-> "accepted"]
        /\ send_request_early(b, users[a]) = {AlreadyConnected}
        /\ send_request_early(a, users[b]) = {AlreadyConnected}
        /\ ENABLED (send_request_check(s, b, users[a]) /\ UNCHANGED vars)
        /\ ENABLED (send_request_check(s, a, users[b]) /\ UNCHANGED vars)

\* What get_messages returns for a message row.
Shown(i) == <<messages[i].sender_id, messages[i].message_text, messages[i].timestamp>>

\* The message rows of the unordered pair {u, p}.
MessagesOfPair(u, p) == {i \in MessageIds : PairOf(messages[i]) = {u, p}}

Count(seq, x) == Cardinality({k \in DOMAIN seq : seq[k] = x})

\* C7: get_messages(u, p) is empty whenever the pair has no accepted request,
\* even if messages of the pair are stored; with an accepted request it holds
\* every stored message of the pair, in both directions, once each, and
\* nothing else.
C7_HistoryGated ==
    \A u \in UserIds, p \in UserIds :
        u # p =>
            IF ~isConnected(u, p)
            THEN get_messages(u, p) = <<>>
            ELSE /\ Len(get_messages(u, p)) = Cardinality(MessagesOfPair(u, p))
                 /\ \A i \in MessagesOfPair(u, p) :
                       Count(get_messages(u, p), Shown(i)) =
                           Cardinality({j \in MessagesOfPair(u, p) : Shown(j) = Shown(i)})

\* C7 witness: u is connected to p and not to q, messages of both pairs are
\* stored, and get_messages holds those of {u, p} and is empty for {u, q}.
C7_GateOpenAndClosed ==
    \E u \in UserIds, p \in UserIds, q \in UserIds :
        /\ Cardinality({u, p, q}) = 3
        /\ isConnected(u, p) /\ ~isConnected(u, q)
        /\ MessagesOfPair(u, p) # {} /\ MessagesOfPair(u, q) # {}
        /\ Len(get_messages(u, p)) = Cardinality(MessagesOfPair(u, p))
        /\ get_messages(u, q) = <<>>
        /\ ENABLED read_messages(u, p) /\ ENABLED read_messages(u, q)

\* b is among the rows of get_accepted_chats(a).
Listed(a, b) ==
    \E k \in DOMAIN get_accepted_chats(a) : get_accepted_chats(a)[k][1] = b

\* C8: connectivity is symmetric: the security check of get_messages passes
\* for (a, b) iff it passes for (b, a), and b is among a's accepted chats iff
\* a is among b's.
C8_ConnectivitySymmetric ==
    \A a \in UserIds, b \in UserIds :
        /\ Permitted(a, b) <=> Permitted(b, a)
        /\ Listed(a, b) <=> Listed(b, a)

\* C8 witness: one accepted request from a to b, seen from both ends.
C8_AcceptedSeenFromBothEnds ==
    \E a \in UserIds, b \in UserIds :
        /\ a # b
        /\ \E i \in RequestIds : message_requests[i] =
               [sender_id |-> a, receiver_id |-> b, status |-> "accepted"]
        /\ ~\E i \in RequestIds : /\ message_requests[i].sender_id = b
                                  /\ message_requests[i].receiver_id = a
        /\ Permitted(a, b) /\ Permitted(b, a)
        /\ Listed(a, b) /\ Listed(b, a)
        /\ ENABLED read_accepted_chats(a) /\ ENABLED read_accepted_chats(b)

\* accept_request / decline_request (r, u) performs the transition: the
\* request exists, is pending, and u is its receiver.
Resolves(r, u) ==
    /\ r \in RequestIds
    /\ message_requests[r].status = "pending"
    /\ message_requests[r].receiver_id = u

\* C9: what accept_request and decline_request return tells a call that
\* performed the transition from one that was a no-op (no such request, not
\* pending, or not the receiver).
C9_OutcomeTellsTransition ==
    \A r \in 1 .. Len(message_requests) + 1, u \in UserIds,
       r2 \in 1 .. Len(message_requests) + 1, u2 \in UserIds :
        (Resolves(r, u) /\ ~Resolves(r2, u2)) =>
            /\ accept_request_returns(r, u) # accept_request_returns(r2, u2)
            /\ decline_request_returns(r, u) # decline_request_returns(r2, u2)

\* C10: once the request of the pair {a, c} is declined, every send_request
\* called from then on for the pair, in either direction, fails with
\* RequestExists (and so inserts no second row that could connect the pair).
C10_DeclinedBlocksForever ==
    [][\A a \in UserIds, c \in UserIds :
          (/\ a # c
           /\ \E i \in RequestsOfPair(a, c) : message_requests[i].status = "declined")
          => (/\ send_request_early(a, users[c]) = {RequestExists}
              /\ send_request_early(c, users[a]) = {RequestExists})']_vars

\* send_request_check(s, a, name) returns without leaving a trace: the session
\* stays idle and no table changes.
ReturnsEarly(a, name) ==
    \A s \in Sessions :
        pc[s].at = "idle" =>
            /\ ENABLED (send_request_check(s, a, name) /\ UNCHANGED vars)
            /\ ~ENABLED (send_request_check(s, a, name) /\ vars' # vars)

\* C11: when send_request finds a request of the unordered pair, it returns
\* AlreadyConnected iff the pair has an accepted request and RequestExists iff
\* it has none (its request is pending or declined), and it changes no table.
C11_ExistingRecordOutcome ==
    \A a \in UserIds, b \in UserIds :
        (a # b /\ RequestsOfPair(a, b) # {}) =>
            /\ send_request_early(a, users[b]) =
                   {IF isConnected(a, b) THEN AlreadyConnected ELSE RequestExists}
            /\ ReturnsEarly(a, users[b])

\* C12: send_request for a name that no user has returns UserNotFound, and for
\* the sender's own name SelfTarget, storing nothing; so no request row (and no
\* INSERT under way) has sender = receiver or a receiver that is not a user.
C12_NoSelfOrUnknownTarget ==
    /\ \A a \in UserIds, k \in 1 .. Len(Usernames) :
          /\ get_user_id(Usernames[k]) = 0 =>
                /\ send_request_early(a, Usernames[k]) = {UserNotFound}
                /\ ReturnsEarly(a, Usernames[k])
          /\ get_user_id(Usernames[k]) = a =>
                /\ send_request_early(a, Usernames[k]) = {SelfTarget}
                /\ ReturnsEarly(a, Usernames[k])
    /\ \A i \in RequestIds :
          /\ message_requests[i].sender_id # message_requests[i].receiver_id
          /\ message_requests[i].receiver_id \in UserIds
    /\ \A s \in InFlight :
          pc[s].sender_id # pc[s].receiver_id /\ pc[s].receiver_id \in UserIds

\* C12 witness: with requests stored, a user calls send_request for a name
\* nobody has and for their own name, and both calls return early.
C12_BothRefusalsSeen ==
    \E a \in UserIds, s \in Sessions :
        /\ message_requests # <<>>
        /\ get_user_id(Usernames[Len(Usernames)]) = 0
        /\ send_request_early(a, Usernames[Len(Usernames)]) = {UserNotFound}
        /\ send_request_early(a, users[a]) = {SelfTarget}
        /\ ENABLED (send_request_check(s, a, Usernames[Len(Usernames)]) /\ UNCHANGED vars)
        /\ ENABLED (send_request_check(s, a, users[a]) /\ UNCHANGED vars)

\* C13: send_request(a, name of b) with a # b, b a user and no request of the
\* pair {a, b} goes on to its INSERT and returns success, and its INSERT adds
\* exactly one row, [a, b, pending], leaving every other request row, all
\* messages and all users as they were.
C13_ProposeAddsOnePending ==
    /\ [](/\ send_request_returns[1]
          /\ \A a \in UserIds, b \in UserIds :
                (a # b /\ RequestsOfPair(a, b) = {}) => send_request_early(a, users[b]) = {})
    /\ [][\A s \in Sessions :
              /\ (pc[s].at = "idle" /\ pc'[s].at = "insert") =>
                    /\ pc'[s].sender_id # pc'[s].receiver_id
                    /\ pc'[s].receiver_id \in UserIds
                    /\ RequestsOfPair(pc'[s].sender_id, pc'[s].receiver_id) = {}
                    /\ UNCHANGED <<users, message_requests, messages>>
              /\ (pc[s].at = "insert" /\ pc'[s].at = "idle") =>
                    /\ message_requests' = Append(message_requests,
                           [sender_id |-> pc[s].sender_id,
                            receiver_id |-> pc[s].receiver_id, status |-> "pending"])
                    /\ UNCHANGED <<users, messages>>]_vars

\* C13 witness: with a request of another pair and a message stored, a session
\* has passed the SELECT for a pair without request and its INSERT adds the
\* pending row.
C13_InsertAfterCleanCheck ==
    \E s \in InFlight :
        /\ RequestsOfPair(pc[s].sender_id, pc[s].receiver_id) = {}
        /\ message_requests # <<>> /\ messages # <<>>
        /\ ENABLED (/\ send_request_insert(s)
                    /\ Len(message_requests') = Len(message_requests) + 1
                    /\ message_requests'[Len(message_requests')] =
                          [sender_id |-> pc[s].sender_id,
                           receiver_id |-> pc[s].receiver_id, status |-> "pending"])

\* The sender and text of every row of a get_messages result.
Said(rows) == [k \in DOMAIN rows |-> <<rows[k][1], rows[k][2]>>]

\* send_message(x, y, text) stores one row, from x to y with that text.
AppendSucceeds(x, y, text) ==
    /\ ENABLED (/\ send_message(x, y, text)
                /\ Len(messages') = Len(messages) + 1
                /\ messages'[Len(messages')].sender_id = x
                /\ messages'[Len(messages')].receiver_id = y
                /\ messages'[Len(messages')].message_text = text)
    /\ ~ENABLED (send_message(x, y, text) /\ messages' = messages)

\* get_messages(x, y) holds the sender and text of every stored message of the
\* pair, once each, and nothing else.
HistoryIsWhatWasAppended(x, y) ==
    /\ Len(get_messages(x, y)) = Cardinality(MessagesOfPair(x, y))
    /\ \A i \in MessagesOfPair(x, y) :
          Count(Said(get_messages(x, y)), <<messages[i].sender_id, messages[i].message_text>>)
              = Cardinality({j \in MessagesOfPair(x, y) :
                                /\ messages[j].sender_id = messages[i].sender_id
                                /\ messages[j].message_text = messages[i].message_text})

\* C14: for a request from a to b, accept_request by b connects the pair; and
\* once it is accepted, send_message with a non-blank text stores the message
\* from a to b and from b to a, and get_messages(a, b) and get_messages(b, a)
\* both hold exactly the messages appended, with their sender and text.
C14_ProposeAcceptChat ==
    \A r \in RequestIds :
        LET a == message_requests[r].sender_id
            b == message_requests[r].receiver_id
        IN  /\ message_requests[r].status = "pending" =>
                  /\ ENABLED (accept_request(r, b) /\ isConnected(a, b)' /\ isConnected(b, a)')
                  /\ ~ENABLED (accept_request(r, b) /\ ~isConnected(a, b)')
            /\ message_requests[r].status = "accepted" =>
                  /\ isConnected(a, b) /\ isConnected(b, a)
                  /\ \A text \in Texts :
                        (Stores(a, b, text) /\ Room) =>
                            AppendSucceeds(a, b, text) /\ AppendSucceeds(b, a, text)
                  /\ HistoryIsWhatWasAppended(a, b)
                  /\ HistoryIsWhatWasAppended(b, a)
                  /\ Said(get_messages(a, b)) = Said(get_messages(b, a))

\* C14 witness: a request from a to b is accepted, a message from a to b and
\* one from b to a are stored, and both users read the two of them.
C14_BothSidesChatted ==
    \E r \in RequestIds :
        LET a == message_requests[r].sender_id
            b == message_requests[r].receiver_id
        IN  /\ message_requests[r].status = "accepted"
            /\ \E i \in MessageIds, j \in MessageIds :
                  /\ messages[i].sender_id = a /\ messages[i].receiver_id = b
                  /\ messages[j].sender_id = b /\ messages[j].receiver_id = a
            /\ Len(get_messages(a, b)) = 2
            /\ Len(get_messages(b, a)) = 2
            /\ ENABLED read_messages(a, b) /\ ENABLED read_messages(b, a)

\* The rows of get_messages for the message rows ids, in the order in which
\* they were stored.
InAppendOrder(ids) == [k \in 1 .. Cardinality(ids) |-> Shown(RowOrder(ids)[k])]

\* C15: for a connected pair, get_messages returns the messages of the pair
\* in the order in which they were appended.
C15_HistoryInAppendOrder ==
    \A u \in UserIds, p \in UserIds :
        (u # p /\ isConnected(u, p)) =>
            get_messages(u, p) = InAppendOrder(MessagesOfPair(u, p))

\* C16: timestamps never decrease in the order in which the messages were
\* stored, across the whole table.
C16_TimestampsNonDecreasing ==
    \A i \in MessageIds, j \in MessageIds :
        i < j => messages[i].timestamp <= messages[j].timestamp

\* C17: get_messages is a pure read and idempotent: a get_messages call
\* changes neither messages nor message_requests, and as long as no message
\* is appended get_messages(u, p) keeps returning the same rows.
C17_HistoryIdempotent ==
    [][\A u \in UserIds, p \in UserIds :
          u # p =>
              /\ read_messages(u, p) => UNCHANGED <<messages, message_requests>>
              /\ messages' = messages => get_messages(u, p)' = get_messages(u, p)]_vars

\* C18: send_message with a text that is empty once stripped stores nothing
\* and changes nothing, connected or not; so every stored message has a text
\* that is not blank.
C18_BlankTextIsNoOp ==
    /\ \A i \in MessageIds : strip(messages[i].message_text) # <<>>
    /\ \A a \in UserIds, b \in UserIds, text \in Texts :
          (a # b /\ strip(text) = <<>>) =>
              /\ ENABLED (send_message(a, b, text) /\ UNCHANGED vars)
              /\ ~ENABLED (send_message(a, b, text) /\ vars' # vars)

\* C18 witness: with room in the tables and messages stored, a sends a blank
\* text to b, connected to a, and to c, not connected to a, and nothing
\* changes.
C18_BlankSentBothWays ==
    \E a \in UserIds, b \in UserIds, c \in UserIds, text \in Texts :
        /\ Cardinality({a, b, c}) = 3
        /\ isConnected(a, b) /\ ~isConnected(a, c)
        /\ text # <<>> /\ strip(text) = <<>>
        /\ Room /\ messages # <<>>
        /\ ENABLED (send_message(a, b, text) /\ UNCHANGED vars)
        /\ ENABLED (send_message(a, c, text) /\ UNCHANGED vars)

\* C19: no step removes or rewrites a stored record: every message row stays,
\* with its sender, receiver, text and timestamp, and every request row
\* stays, with its sender and receiver; the tables only grow.
C19_RecordsKept ==
    [][/\ \A i \in MessageIds :
             i \in DOMAIN messages' /\ messages'[i] = messages[i]
       /\ \A i \in RequestIds :
             /\ i \in DOMAIN message_requests'
             /\ message_requests'[i].sender_id = message_requests[i].sender_id
             /\ message_requests'[i].receiver_id = message_requests[i].receiver_id]_vars

\* C19 witness: an accepted request, a declined request and a message are
\* stored, and the receiver's decline_request of the accepted one rewrites its
\* status only.
C19_ResolvedAndKept ==
    \E r \in RequestIds, d \in RequestIds :
        /\ message_requests[r].status = "accepted"
        /\ message_requests[d].status = "declined"
        /\ messages # <<>>
        /\ ENABLED (/\ decline_request(r, message_requests[r].receiver_id)
                    /\ message_requests'[r] = [message_requests[r] EXCEPT !.status = "declined"]
                    /\ Len(message_requests') = Len(message_requests))

\* Request r is among the rows of get_pending_requests(u).
Incoming(u, r) ==
    \E k \in DOMAIN get_pending_requests(u) : get_pending_requests(u)[k][2] = r

\* C20: get_pending_requests(u) returns exactly the requests whose receiver is
\* u and whose status is pending, once each, with the sender's username; so a
\* request is listed for its receiver while it is pending, is never listed
\* again once it is accepted or declined, and is never listed for its sender
\* or a third user.
C20_IncomingIsPendingForTarget ==
    /\ [](\A u \in UserIds :
             /\ \A k \in DOMAIN get_pending_requests(u) :
                   LET r == get_pending_requests(u)[k][2]
                   IN  /\ r \in RequestIds
                       /\ message_requests[r].receiver_id = u
                       /\ message_requests[r].status = "pending"
                       /\ get_pending_requests(u)[k][1] = users[message_requests[r].sender_id]
                       /\ \A j \in DOMAIN get_pending_requests(u) :
                             get_pending_requests(u)[j][2] = r => j = k
             /\ \A r \in RequestIds :
                   Incoming(u, r) <=> (/\ message_requests[r].receiver_id = u
                                       /\ message_requests[r].status = "pending"))
    /\ [][\A r \in RequestIds :
             message_requests[r].status # "pending" =>
                 /\ r \in DOMAIN message_requests'
                 /\ message_requests'[r].status # "pending"]_vars

\* C20 witness: u has a pending request from a, listed with a's name, and an
\* accepted request that is not listed; nothing is listed for a.
C20_PendingListedResolvedNot ==
    \E u \in UserIds, r \in RequestIds, d \in RequestIds :
        /\ message_requests[r].receiver_id = u /\ message_requests[r].status = "pending"
        /\ message_requests[d].receiver_id = u /\ message_requests[d].status = "accepted"
        /\ get_pending_requests(u) = <<<<users[message_requests[r].sender_id], r>>>>
        /\ get_pending_requests(message_requests[r].sender_id) = <<>>
        /\ ENABLED read_pending_requests(u)
        /\ ENABLED read_pending_requests(message_requests[r].sender_id)

\* The requests that u sent.
SentBy(u) == {i \in RequestIds : message_requests[i].sender_id = u}

\* C21: get_sent_requests(u) returns exactly the requests whose sender is u,
\* whatever their status, each with the receiver's username and the status
\* it has now; an accepted or declined request stays in the list.
C21_OutgoingHasEveryStatus ==
    \A u \in UserIds :
        /\ Len(get_sent_requests(u)) = Cardinality(SentBy(u))
        /\ \A i \in SentBy(u) :
              LET row == <<users[message_requests[i].receiver_id], message_requests[i].status>>
              IN  Count(get_sent_requests(u), row) =
                      Cardinality({j \in SentBy(u) :
                          /\ message_requests[j].receiver_id = message_requests[i].receiver_id
                          /\ message_requests[j].status = message_requests[i].status})

\* C21 witness: u sent a request that is now accepted and one that is now
\* declined; the list of u holds the two of them with their status, and the
\* lists of the two receivers are empty.
C21_ResolvedStillListed ==
    \E u \in UserIds, r \in RequestIds, d \in RequestIds :
        /\ message_requests[r].sender_id = u /\ message_requests[r].status = "accepted"
        /\ message_requests[d].sender_id = u /\ message_requests[d].status = "declined"
        /\ get_sent_requests(message_requests[r].receiver_id) = <<>>
        /\ get_sent_requests(message_requests[d].receiver_id) = <<>>
        /\ Len(get_sent_requests(u)) = 2
        /\ Count(get_sent_requests(u), <<users[message_requests[r].receiver_id], "accepted">>) = 1
        /\ Count(get_sent_requests(u), <<users[message_requests[d].receiver_id], "declined">>) = 1
        /\ ENABLED read_sent_requests(u)

\* C22: get_last_message(u, p) is NoRow iff no message between u and p is
\* stored; otherwise it is a stored message of the pair, of either direction,
\* that no other message of the pair is more recent than, whether or not the
\* pair is connected.
C22_LastMessageUngated ==
    \A u \in UserIds, p \in UserIds :
        u # p =>
            /\ get_last_message(u, p) = NoRow <=> MessagesOfPair(u, p) = {}
            /\ MessagesOfPair(u, p) # {} =>
                  \E i \in MessagesOfPair(u, p) :
                      /\ get_last_message(u, p) = Shown(i)
                      /\ \A j \in MessagesOfPair(u, p) :
                            messages[j].timestamp <= messages[i].timestamp
            /\ get_last_message(u, p) = get_last_message(p, u)

\* C22 witness: two messages of different times between u and p, who are not
\* connected: get_messages gives nothing, get_last_message the later one,
\* sent by p; and nothing for u and a third user.
C22_LastOfUnconnectedPair ==
    \E u \in UserIds, p \in UserIds, q \in UserIds, i \in MessageIds, j \in MessageIds :
        /\ Cardinality({u, p, q}) = 3
        /\ ~isConnected(u, p)
        /\ MessagesOfPair(u, p) = {i, j}
        /\ messages[i].timestamp < messages[j].timestamp
        /\ messages[j].sender_id = p
        /\ get_messages(u, p) = <<>>
        /\ get_last_message(u, p) = Shown(j)
        /\ get_last_message(u, q) = NoRow
        /\ ENABLED read_last_message(u, p) /\ ENABLED read_last_message(u, q)

\* The messages that p sent to u.
SentTo(u, p) == {i \in MessageIds : Shown(i)[1] = p /\ messages[i].receiver_id = u}

\* C23: get_unread_count(u, p) is always the number of stored messages that
\* p sent to u; no step makes it smaller, and a read (get_messages,
\* get_last_message, get_unread_count or any other) leaves it as it is.
C23_UnreadCountsPartnerMessages ==
    /\ [](/\ \A u \in UserIds, p \in UserIds :
                get_unread_count(u, p) = Cardinality(SentTo(u, p))
          /\ ~ENABLED (/\ \E u \in UserIds :
                             \/ read_accepted_chats(u)
                             \/ read_pending_requests(u)
                             \/ read_sent_requests(u)
                             \/ \E p \in UserIds \ {u} :
                                   \/ read_messages(u, p)
                                   \/ read_last_message(u, p)
                                   \/ read_unread_count(u, p)
                       /\ messages' # messages))
    /\ [][messages' # messages =>
             \A u \in UserIds, p \in UserIds :
                 get_unread_count(u, p)' >= get_unread_count(u, p)]_vars

\* C23 witness: p sent two messages to u and u one to p, the pair being
\* connected; u has read them, and the count of u is still two, that of p one.
C23_CountAfterReading ==
    \E u \in UserIds, p \in UserIds :
        /\ Cardinality(SentTo(u, p)) = 2 /\ Cardinality(SentTo(p, u)) = 1
        /\ get_unread_count(u, p) = 2 /\ get_unread_count(p, u) = 1
        /\ ENABLED (read_messages(u, p) /\ get_unread_count(u, p)' = 2)
        /\ ENABLED (read_last_message(u, p) /\ get_unread_count(u, p)' = 2)
        /\ ENABLED (read_unread_count(u, p) /\ get_unread_count(u, p)' = 2)

\* C24: connectivity, once granted, is never lost: no step takes a connected
\* pair to a state in which it is not connected, so get_messages of the pair
\* never shrinks back to empty.
C24_ConnectivityNeverLost ==
    [][\A a \in UserIds, b \in UserIds :
          isConnected(a, b) =>
              /\ isConnected(a, b)'
              /\ Len(get_messages(a, b)') >= Len(get_messages(a, b))]_vars

\* How many rows of get_accepted_chats(u) are about user p.
TimesListed(u, p) ==
    Cardinality({k \in DOMAIN get_accepted_chats(u) : get_accepted_chats(u)[k][1] = p})

\* C25: get_accepted_chats(u) agrees with the connectivity of u: p is listed
\* iff the pair {u, p} has an accepted request, p is listed at most once, with
\* its username, and u itself is never listed.
C25_PartnersAgreeWithGate ==
    \A u \in UserIds :
        /\ TimesListed(u, u) = 0
        /\ \A p \in UserIds \ {u} :
              /\ TimesListed(u, p) = IF isConnected(u, p) THEN 1 ELSE 0
              /\ Permitted(u, p) <=> TimesListed(u, p) > 0
        /\ \A k \in DOMAIN get_accepted_chats(u) :
              /\ get_accepted_chats(u)[k][1] \in UserIds
              /\ get_accepted_chats(u)[k][2] = users[get_accepted_chats(u)[k][1]]

\* What a step of accept_request or decline_request on request r may change:
\* the status of r, if r exists, and nothing else.
OnlyStatusOf(r) ==
    /\ UNCHANGED <<users, messages>>
    /\ DOMAIN message_requests' = DOMAIN message_requests
    /\ \A i \in RequestIds :
          /\ message_requests'[i].sender_id = message_requests[i].sender_id
          /\ message_requests'[i].receiver_id = message_requests[i].receiver_id
          /\ i # r => message_requests'[i] = message_requests[i]

\* C26: accept_request(r, u) and decline_request(r, u) change at most the
\* status of request r: every other request, the sender and receiver of every
\* request, the set of requests and all messages stay as they are, and a call
\* with an id that no request has changes nothing.
C26_ResolveTouchesOneStatus ==
    \A r \in 1 .. Len(message_requests) + 1, u \in UserIds :
        /\ ~ENABLED (accept_request(r, u) /\ ~OnlyStatusOf(r))
        /\ ~ENABLED (decline_request(r, u) /\ ~OnlyStatusOf(r))
        /\ r \notin RequestIds =>
              /\ ~ENABLED (accept_request(r, u) /\ vars' # vars)
              /\ ~ENABLED (decline_request(r, u) /\ vars' # vars)

\* C26 witness: u has pending requests of two users and a message is stored; u's
\* accept_request of one of them changes its status and leaves the other
\* pending, and u's call with an id that no request has changes nothing.
C26_OneOfTwoResolved ==
    \E u \in UserIds, r \in RequestIds, o \in RequestIds :
        /\ message_requests[r].sender_id # message_requests[o].sender_id
        /\ messages # <<>>
        /\ message_requests[r].receiver_id = u /\ message_requests[r].status = "pending"
        /\ message_requests[o].receiver_id = u /\ message_requests[o].status = "pending"
        /\ ENABLED (/\ accept_request(r, u)
                    /\ message_requests'[r].status = "accepted"
                    /\ message_requests'[o] = message_requests[o])
        /\ ENABLED (decline_request(Len(message_requests) + 1, u) /\ UNCHANGED vars)

\* C27: for a connected pair with a stored message, get_last_message(u, p) is
\* the last row of get_messages(u, p), also when messages of the pair carry
\* equal timestamps.
C27_LastMessageEndsHistory ==
    \A u \in UserIds, p \in UserIds :
        (u # p /\ isConnected(u, p) /\ MessagesOfPair(u, p) # {}) =>
            get_last_message(u, p) = get_messages(u, p)[Len(get_messages(u, p))]

\* C28: usernames are unique and stable: register_user with a username that
\* is taken returns failure and leaves users as it is, no two users share a
\* username, no step changes or removes a user, and get_user_id of a username
\* is the same id in every later state.
C28_UsernamesUniqueAndStable ==
    /\ [](\A i \in UserIds :
             /\ \A j \in UserIds : users[i] = users[j] => i = j
             /\ get_user_id(users[i]) = i
             /\ ~register_user_returns(users[i])[1]
             /\ ~ENABLED (register_user(users[i]) /\ vars' # vars))
    /\ [][users' # users =>
             \A i \in UserIds :
                 /\ i \in DOMAIN users'
                 /\ users'[i] = users[i]
                 /\ get_user_id(users[i])' = get_user_id(users[i])]_vars

\* C28 witness: with two users registered and a request stored, register_user
\* with the first user's name returns failure and changes nothing, and with a
\* new name adds the third user.
C28_TakenNameRefused ==
    /\ Len(users) = 2 /\ message_requests # <<>>
    /\ register_user_returns(users[1]) = <<FALSE, "Username already exists.">>
    /\ ENABLED (register_user(users[1]) /\ UNCHANGED vars)
    /\ ENABLED (register_user(Usernames[3]) /\ Len(users') = 3 /\ get_user_id(users[1])' = 1)

====
